---- MODULE Spec2Model ----
(***************************************************************************)
(* Model of the code execution engine of isavita/codeexec:                 *)
(* internal/executor (DockerExecutor.Execute and its helpers) driving a    *)
(* Docker daemon.  The daemon, the submitted code's behaviour inside a     *)
(* container and the context deadline are the environment.                 *)
(***************************************************************************)
EXTENDS Integers, Sequences, FiniteSets, TLC

\* ------------------------------------------------------------------ bounds
MaxCalls == 1

\* Execute calls in flight at once, each on its own goroutine
ConcurrentCalls == 2

\* HTTP requests served in a run
MaxRequests == 1

\* ------------------------------------------------------------------ inputs
Languages == {"python", "javascript", "ruby"}
Codes == {"print(1)", "x=("}
Timeouts == {200, 2000}

\* what a container can do when it stops
ExitCodes == {0, 1, 137}
Stdouts == {"", " 5 6\n"}
Stderrs == {"", "Traceback"}

\* ------------------------------------------------------------- Go strings
Contains(s, sub) ==
    \E i \in 1..(Len(s) - Len(sub) + 1) : SubSeq(s, i, i + Len(sub) - 1) = sub

IsSpace(c) == c \in {" ", "\n", "\t", "\r"}

RECURSIVE TrimLeft(_)
TrimLeft(s) ==
    IF Len(s) > 0 /\ IsSpace(SubSeq(s, 1, 1)) THEN TrimLeft(SubSeq(s, 2, Len(s))) ELSE s

RECURSIVE TrimRight(_)
TrimRight(s) ==
    IF Len(s) > 0 /\ IsSpace(SubSeq(s, Len(s), Len(s)))
    THEN TrimRight(SubSeq(s, 1, Len(s) - 1)) ELSE s

\* mutant: only the leading white space is cut
TrimSpace_LeftOnly(s) == TrimLeft(s)

TrimSpace(s) == TrimRight(TrimLeft(s))

\* time.Duration's %s for whole milliseconds
FormatDuration(ms) ==
    IF ms % 1000 = 0 THEN ToString(ms \div 1000) \o "s" ELSE ToString(ms) \o "ms"

\* ------------------------------------------------------------- Go errors
NilErr == [isNil |-> TRUE, msg |-> ""]

\* mutant: the error carries no message
Errorf_Opaque(m) == [isNil |-> FALSE, msg |-> ""]

Errorf(m) == [isNil |-> FALSE, msg |-> m]

\* ------------------------------------------------------- language registry
getImageForLanguage(language) ==
    CASE language = "python" -> "python-exec"
      [] language = "javascript" -> "javascript-exec"
      [] OTHER -> ""

getFileExtensionForLanguage(language) ==
    CASE language = "python" -> "py"
      [] language = "javascript" -> "js"
      [] OTHER -> ""

\* the handler's admission list
supportedLanguages == {"python", "javascript"}

\* mutant: the switch has no default branch, an unknown language is checked as python
syntaxCheckBranch_NoDefault(language) ==
    IF language = "javascript" THEN "javascript" ELSE "python"

\* the branch of syntaxCheck's switch a language takes
syntaxCheckBranch(language) ==
    CASE language = "python" -> "python"
      [] language = "javascript" -> "javascript"
      [] OTHER -> "default"

\* ------------------------------------------------------------------ state
VARIABLES
    calls,        \* Execute calls started so far
    self,         \* the number of the running Execute call (0: none)
    pc,           \* position of the running Execute call ("idle": none)
    code, language, timeout,   \* the call's arguments
    containers,   \* the daemon's containers, by id
    tmpdirs,      \* the host's staged source files, in creation order
    checkID,      \* syntaxCheck's resp.ID (0: none)
    codeFile,     \* syntaxCheck's codeFile: the path it staged (0: none)
    containerID,  \* Execute's containerID (0: none)
    waiting,      \* the container of the outstanding ContainerWait (0: none)
    statusCh,     \* ContainerWait's result channel: <<>> or <<status>>
    errCh,        \* ContainerWait's error channel: <<>> or <<err>>
    ctxArmed,     \* waitForContainer's context exists and is not cancelled
    ctxDone,      \* its deadline has elapsed: ctx.Done() is closed
    atDeadline,   \* the run container's state when the deadline elapsed
    scErr,        \* what syntaxCheck returned
    exitCode,     \* waitForContainer's result
    info,         \* checkContainerStatus's containerInfo
    streams,      \* getContainerOutput's stdout and stderr builders
    retOut, retErr,  \* what Execute returns
    oplog,        \* the daemon requests the call has issued, in order
    parked,       \* the calls in progress on other goroutines, as their locals
    requests,     \* HTTP requests received so far
    hpc,          \* position of the request being served ("idle": none yet)
    req,          \* the request being served: method, X-Api-Key header, body
    env,          \* the environment variables AuthMiddleware read for it
    resp          \* the response written for it: status and JSON body

vars == <<calls, self, pc, code, language, timeout, containers, tmpdirs, checkID,
          codeFile, parked, containerID, waiting, statusCh, errCh, ctxArmed, ctxDone, atDeadline,
          scErr, exitCode, info, streams, retOut, retErr, oplog,
          requests, hpc, req, env, resp>>

httpVars == <<requests, hpc, req, env, resp>>
callVars == <<code, language, timeout>>
chanVars == <<waiting, statusCh, errCh>>
ctxVars == <<ctxArmed, ctxDone, atDeadline>>
retVars == <<retOut, retErr>>

MaxIds ==
    2 * (CHOOSE n \in {MaxCalls, ConcurrentCalls, MaxRequests} :
            \A m \in {MaxCalls, ConcurrentCalls, MaxRequests} : m <= n)
Ids == 1..MaxIds

NoContainer ==
    [state |-> "absent", phase |-> "", owner |-> 0, image |-> "", cmd |-> <<>>,
     binds |-> <<>>, memory |-> 0, memorySwap |-> 0, cpuQuota |-> 0,
     exitCode |-> 0, oom |-> FALSE, stdout |-> "", stderr |-> ""]

NoInfo == [valid |-> FALSE, oom |-> FALSE]

NoStreams == [valid |-> FALSE, stdout |-> "", stderr |-> ""]

\* the id the daemon gives the next container
NewId == 1 + Cardinality({i \in Ids : containers[i].state # "absent"})

\* --------------------------------------------------------- Docker daemon
\* what the daemon answers to a request: nil, or an error of the request
CreateErrors == {NilErr, Errorf("No such image")}
StartErrors == {NilErr, Errorf("cannot start container")}
InspectErrors == {NilErr, Errorf("No such container")}
LogsErrors == {NilErr, Errorf("logs unavailable")}
CopyErrors == {NilErr, Errorf("unexpected EOF")}

CPUQuota == 50000
MemoryLimit == 64 * 1024 * 1024

DaemonCreate(cs, id, rec) == [cs EXCEPT ![id] = rec]

DaemonStart(cs, id) == [cs EXCEPT ![id].state = "running"]

\* what the daemon keeps of a removed container: nothing but that it existed
Removed(c) == [NoContainer EXCEPT !.state = "removed", !.phase = c.phase,
                                  !.owner = c.owner]

\* DELETE /containers/{id}: a running container is removed only with force
DaemonRemove(cs, id, force) ==
    IF cs[id].state = "running" /\ ~force
    THEN cs
    ELSE [cs EXCEPT ![id] = Removed(cs[id])]

\* container.RemoveOptions{}: Force is false
RemoveForce == FALSE

removeContainer(cs, id) == DaemonRemove(cs, id, RemoveForce)

\* ------------------------------------------------------------ host files
\* createCodeFile: a new temporary directory holding code.<ext>; its result
\* is the file's path, here the directory's index
\* mutant: the code is always written to the same file
createCodeFile_FixedPath(dirs, c, l) ==
    LET f == [file |-> TRUE, code |-> c,
              name |-> "code." \o getFileExtensionForLanguage(l)]
    IN IF dirs = <<>> THEN <<f>> ELSE [dirs EXCEPT ![Len(dirs)] = f]

createCodeFile(dirs, c, l) ==
    Append(dirs, [file |-> TRUE, code |-> c,
                  name |-> "code." \o getFileExtensionForLanguage(l)])

\* os.Remove(codeFile): the file goes, its directory stays
osRemove(dirs, path) == [dirs EXCEPT ![path].file = FALSE]

Logged(op, id) == Append(oplog, [op |-> op, id |-> id])

\* ------------------------------------------------------------ HTTP values
\* a JSON value of a request body: a string or a number
JString(s) == [type |-> "string", s |-> s]
JNumber(s) == [type |-> "number", s |-> s]

\* a request body: the JSON object its text starts with (object FALSE: the
\* text starts with no JSON value) and the text after the object
NoBody == [object |-> FALSE, fields |-> <<>>, rest |-> ""]

NoRequest == [method |-> "", apiKey |-> "", body |-> NoBody]

\* API_KEY_CHECK_ENABLED and API_KEY; "" is what os.Getenv gives when unset
NoEnv == [checkEnabled |-> "", apiKey |-> ""]

NoResponse == [status |-> 0, body |-> <<>>]

\* ------------------------------------------------------------ Execute
Init ==
    /\ calls = 0
    /\ self = 0
    /\ parked = {}
    /\ pc = "idle"
    /\ code = "" /\ language = "" /\ timeout = 0
    /\ containers = [i \in Ids |-> NoContainer]
    /\ tmpdirs = <<>>
    /\ checkID = 0 /\ codeFile = 0 /\ containerID = 0
    /\ waiting = 0 /\ statusCh = <<>> /\ errCh = <<>>
    /\ ctxArmed = FALSE /\ ctxDone = FALSE /\ atDeadline = "pending"
    /\ scErr = NilErr
    /\ exitCode = 0
    /\ info = NoInfo
    /\ streams = NoStreams
    /\ retOut = "" /\ retErr = NilErr
    /\ oplog = <<>>
    /\ requests = 0
    /\ hpc = "idle"
    /\ req = NoRequest
    /\ env = NoEnv
    /\ resp = NoResponse

ExecuteCall(c, l, t) ==
    /\ pc = "idle"
    /\ calls' = calls + 1
    /\ self' = calls + 1
    /\ code' = c /\ language' = l /\ timeout' = t
    /\ pc' = "syntaxCheck"
    /\ UNCHANGED <<httpVars, containers, tmpdirs, parked, checkID, codeFile, containerID,
                   chanVars, ctxVars, scErr, exitCode, info, streams, retVars, oplog>>

\* mutant: Execute ignores the syntax check's result
SyntaxCheckFailed_Ignored(err) == FALSE

\* Execute, lines 30-32: was the syntax check's result an error?
SyntaxCheckFailed(err) == ~err.isNil

\* mutant: the verdict carries the number of validations so far
AfterSyntaxCheck_Counted(err) ==
    /\ scErr' = (IF err.isNil THEN err
                 ELSE Errorf(err.msg \o " (validation " \o ToString(calls) \o ")"))
    /\ IF SyntaxCheckFailed(err)
       THEN /\ retOut' = ""
            /\ retErr' = Errorf("syntax check failed: " \o err.msg)
            /\ pc' = "done"
       ELSE /\ pc' = "createContainer"
            /\ UNCHANGED retVars

\* syntaxCheck has returned err to Execute
AfterSyntaxCheck(err) ==
    /\ scErr' = err
    /\ IF SyntaxCheckFailed(err)
       THEN /\ retOut' = ""
            /\ retErr' = Errorf("syntax check failed: " \o err.msg)
            /\ pc' = "done"
       ELSE /\ pc' = "createContainer"
            /\ UNCHANGED retVars

\* syntaxCheck's default branch
SyntaxCheckDefault ==
    /\ pc = "syntaxCheck"
    /\ syntaxCheckBranch(language) = "default"
    /\ AfterSyntaxCheck(Errorf("unsupported language: " \o language))
    /\ UNCHANGED <<httpVars, calls, self, parked, codeFile, callVars, containers, tmpdirs, checkID, containerID,
                   chanVars, ctxVars, exitCode, info, streams, oplog>>

\* the container each branch of syntaxCheck asks the daemon for
CheckContainer(branch, c, path) ==
    IF branch = "python"
    THEN [NoContainer EXCEPT
            !.state = "created", !.phase = "check", !.owner = self,
            !.image = "python:3.11-alpine",
            !.cmd = <<"python", "-c", "import ast; ast.parse('''" \o c \o "''')">>]
    ELSE [NoContainer EXCEPT
            !.state = "created", !.phase = "check", !.owner = self,
            !.image = "node:19-alpine",
            !.cmd = <<"node", "--check", "/app/code.js">>,
            !.binds = <<[host |-> path, target |-> "/app/code.js"]>>]

\* the host files once syntaxCheck's deferred os.Remove has run
CheckFilesRemoved(dirs) ==
    IF syntaxCheckBranch(language) = "javascript"
    THEN osRemove(dirs, codeFile)
    ELSE dirs

\* syntaxCheck up to ContainerCreate (javascript stages the code first)
SyntaxCheckCreate(err) ==
    /\ pc = "syntaxCheck"
    /\ syntaxCheckBranch(language) # "default"
    /\ LET branch == syntaxCheckBranch(language)
           staged == IF branch = "javascript"
                     THEN createCodeFile(tmpdirs, code, language)
                     ELSE tmpdirs
           id == NewId
       IN \/ /\ err.isNil
             /\ containers' = DaemonCreate(containers, id,
                                  CheckContainer(branch, code, Len(staged)))
             /\ tmpdirs' = staged
             /\ checkID' = id
             /\ codeFile' = (IF branch = "javascript" THEN Len(staged) ELSE 0)
             /\ oplog' = Logged("create", id)
             /\ pc' = "sc_start"
             /\ UNCHANGED <<scErr, retVars>>
          \/ /\ ~err.isNil
             /\ tmpdirs' = (IF branch = "javascript"
                            THEN osRemove(staged, Len(staged)) ELSE staged)
             /\ oplog' = Logged("create", 0)
             /\ AfterSyntaxCheck(err)
             /\ UNCHANGED <<containers, checkID, codeFile>>
    /\ UNCHANGED <<httpVars, calls, self, parked, callVars, containerID, chanVars, ctxVars, exitCode, info, streams>>

\* syntaxCheck: ContainerStart, then ContainerWait is issued
SyntaxCheckStart(err) ==
    /\ pc = "sc_start"
    /\ \/ /\ err.isNil
          /\ containers' = DaemonStart(containers, checkID)
          /\ oplog' = Append(Logged("start", checkID), [op |-> "wait", id |-> checkID])
          /\ waiting' = checkID
          /\ pc' = "sc_select"
          /\ UNCHANGED scErr
       \/ /\ ~err.isNil
          /\ scErr' = err
          /\ oplog' = Logged("start", checkID)
          /\ pc' = "sc_return"
          /\ UNCHANGED <<containers, waiting>>
    /\ UNCHANGED <<httpVars, calls, self, parked, codeFile, callVars, tmpdirs, checkID, containerID, statusCh, errCh,
                   ctxVars, exitCode, info, streams, retVars>>

\* what syntaxCheck makes of the check container's exit status
SyntaxStatusErrors(branch, status, stderr) ==
    IF status = 0 THEN {NilErr}
    ELSE IF branch = "python" THEN {Errorf("syntax check failed")}
    ELSE {Errorf("syntax check failed with status code " \o ToString(status)
                 \o " and unable to retrieve logs: " \o "logs unavailable"),
          Errorf("failed to read container logs: " \o "unexpected EOF"),
          Errorf("syntax check failed: status code " \o ToString(status)
                 \o ", error: " \o stderr)}

\* syntaxCheck's select over errCh and statusCh (no deadline)
SyntaxCheckSelect ==
    /\ pc = "sc_select"
    /\ \/ /\ errCh # <<>>
          /\ scErr' = Head(errCh)
          /\ UNCHANGED oplog
       \/ /\ statusCh # <<>>
          /\ \E e \in SyntaxStatusErrors(syntaxCheckBranch(language), Head(statusCh),
                                         containers[checkID].stderr) :
                scErr' = e
          /\ oplog' = (IF Head(statusCh) # 0 /\ syntaxCheckBranch(language) = "javascript"
                       THEN Logged("logs", checkID) ELSE oplog)
    /\ waiting' = 0 /\ statusCh' = <<>> /\ errCh' = <<>>
    /\ pc' = "sc_return"
    /\ UNCHANGED <<httpVars, calls, self, parked, codeFile, callVars, containers, tmpdirs, checkID, containerID,
                   ctxVars, exitCode, info, streams, retVars>>

\* syntaxCheck's deferred calls run, and Execute goes on with its result
SyntaxCheckReturn ==
    /\ pc = "sc_return"
    /\ containers' = DaemonRemove(containers, checkID, RemoveForce)
    /\ tmpdirs' = CheckFilesRemoved(tmpdirs)
    /\ oplog' = Logged("remove", checkID)
    /\ AfterSyntaxCheck(scErr)
    /\ UNCHANGED <<httpVars, calls, self, parked, codeFile, callVars, checkID, containerID, chanVars, ctxVars,
                   exitCode, info, streams>>

\* mutant: the container may swap without limit
RunContainer_NoSwapLimit(l, path) ==
    [NoContainer EXCEPT
        !.state = "created", !.phase = "run", !.owner = self,
        !.image = getImageForLanguage(l),
        !.cmd = <<"code." \o getFileExtensionForLanguage(l)>>,
        !.binds = <<[host |-> path,
                     target |-> "/app/code." \o getFileExtensionForLanguage(l)]>>,
        !.memory = MemoryLimit, !.memorySwap = 0 - 1, !.cpuQuota = CPUQuota]

\* the container createContainer asks the daemon for
RunContainer(l, path) ==
    [NoContainer EXCEPT
        !.state = "created", !.phase = "run", !.owner = self,
        !.image = getImageForLanguage(l),
        !.cmd = <<"code." \o getFileExtensionForLanguage(l)>>,
        !.binds = <<[host |-> path,
                     target |-> "/app/code." \o getFileExtensionForLanguage(l)]>>,
        !.memory = MemoryLimit, !.memorySwap = MemoryLimit, !.cpuQuota = CPUQuota]

\* mutant: the run phase takes over the syntax check's container
CreateContainer_ReuseCheck(err) ==
    /\ pc = "createContainer"
    /\ tmpdirs' = createCodeFile(tmpdirs, code, language)
    /\ containers' = DaemonCreate(containers, checkID,
                                  RunContainer(language, Len(tmpdirs')))
    /\ containerID' = checkID
    /\ oplog' = Logged("create", checkID)
    /\ pc' = "startContainer"
    /\ UNCHANGED <<httpVars, calls, self, parked, codeFile, callVars, checkID, chanVars,
                   ctxVars, scErr, exitCode, info, streams, retVars>>

\* createContainer, and Execute's handling of its result (lines 34-38)
CreateContainer(err) ==
    /\ pc = "createContainer"
    /\ LET staged == createCodeFile(tmpdirs, code, language)
           id == NewId
       IN /\ tmpdirs' = staged
          /\ \/ /\ err.isNil
                /\ containers' = DaemonCreate(containers, id,
                                     RunContainer(language, Len(staged)))
                /\ containerID' = id
                /\ oplog' = Logged("create", id)
                /\ pc' = "startContainer"
                /\ UNCHANGED retVars
             \/ /\ ~err.isNil
                /\ retOut' = ""
                /\ retErr' = Errorf("failed to create container: " \o err.msg)
                /\ oplog' = Logged("create", 0)
                /\ pc' = "done"
                /\ UNCHANGED <<containers, containerID>>
    /\ UNCHANGED <<httpVars, calls, self, parked, codeFile, callVars, checkID, chanVars, ctxVars, scErr, exitCode, info, streams>>

\* createCodeFile's log.Fatalf: the process exits
CreateCodeFileFatal ==
    /\ \/ pc = "createContainer"
       \/ pc = "syntaxCheck" /\ syntaxCheckBranch(language) = "javascript"
    /\ pc' = "fatal"
    /\ UNCHANGED <<httpVars, calls, self, parked, codeFile, callVars, containers, tmpdirs, checkID, containerID,
                   chanVars, ctxVars, scErr, exitCode, info, streams, retVars, oplog>>

\* mutant: a failed start sends the call back to staging
StartContainer_Retry(err) ==
    /\ pc = "startContainer"
    /\ oplog' = Logged("start", containerID)
    /\ \/ /\ err.isNil
          /\ containers' = DaemonStart(containers, containerID)
          /\ pc' = "waitForContainer"
       \/ /\ ~err.isNil
          /\ pc' = "createContainer"
          /\ UNCHANGED containers
    /\ UNCHANGED <<httpVars, calls, self, parked, codeFile, callVars, tmpdirs, checkID, containerID, chanVars, ctxVars,
                   scErr, exitCode, info, streams, retVars>>

\* startContainer, and Execute's handling of its result (lines 40-42)
StartContainer(err) ==
    /\ pc = "startContainer"
    /\ oplog' = Logged("start", containerID)
    /\ \/ /\ err.isNil
          /\ containers' = DaemonStart(containers, containerID)
          /\ pc' = "waitForContainer"
          /\ UNCHANGED retVars
       \/ /\ ~err.isNil
          /\ retOut' = ""
          /\ retErr' = Errorf("failed to start container: " \o err.msg)
          /\ pc' = "removeContainer"
          /\ UNCHANGED containers
    /\ UNCHANGED <<httpVars, calls, self, parked, codeFile, callVars, tmpdirs, checkID, containerID, chanVars, ctxVars,
                   scErr, exitCode, info, streams>>

\* waitForContainer, lines 88-91: the context with its deadline, and ContainerWait
WaitForContainer ==
    /\ pc = "waitForContainer"
    /\ ctxArmed' = TRUE /\ ctxDone' = FALSE /\ atDeadline' = "pending"
    /\ waiting' = containerID /\ statusCh' = <<>> /\ errCh' = <<>>
    /\ oplog' = Logged("wait", containerID)
    /\ pc' = "select"
    /\ UNCHANGED <<httpVars, calls, self, parked, codeFile, callVars, containers, tmpdirs, checkID, containerID,
                   scErr, exitCode, info, streams, retVars>>

\* waitForContainer's select, lines 92-102: any ready case may be taken; the
\* deferred cancel() and the return to Execute (lines 44-47) follow
WaitSelect ==
    /\ pc = "select"
    /\ \/ /\ errCh # <<>>
          /\ IF ~Head(errCh).isNil
             THEN /\ retOut' = ""
                  /\ retErr' = Errorf("failed to wait for container: " \o Head(errCh).msg)
                  /\ pc' = "removeContainer"
                  /\ UNCHANGED exitCode
             ELSE /\ exitCode' = 0
                  /\ pc' = "checkContainerStatus"
                  /\ UNCHANGED retVars
       \/ /\ statusCh # <<>>
          /\ exitCode' = Head(statusCh)
          /\ pc' = "checkContainerStatus"
          /\ UNCHANGED retVars
       \/ /\ ctxDone
          /\ retOut' = ""
          /\ retErr' = Errorf("container execution timed out after "
                              \o FormatDuration(timeout))
          /\ pc' = "removeContainer"
          /\ UNCHANGED exitCode
    /\ ctxArmed' = FALSE
    /\ waiting' = 0 /\ statusCh' = <<>> /\ errCh' = <<>>
    /\ UNCHANGED <<httpVars, calls, self, parked, codeFile, callVars, containers, tmpdirs, checkID, containerID,
                   ctxDone, atDeadline, scErr, info, streams, oplog>>

\* mutant: the exit code is looked at before the OOM flag
checkContainerStatus_ExitFirst(oomKilled, status) ==
    IF status # 0
    THEN Errorf("container exited with non-zero status code: " \o ToString(status))
    ELSE IF oomKilled THEN Errorf("container exceeded memory limit")
         ELSE NilErr

\* checkContainerStatus, lines 112-117: the error for an inspected state
checkContainerStatus(oomKilled, status) ==
    IF oomKilled THEN Errorf("container exceeded memory limit")
    ELSE IF status # 0
         THEN Errorf("container exited with non-zero status code: " \o ToString(status))
         ELSE NilErr

\* checkContainerStatus with ContainerInspect, and Execute's lines 49-51
CheckContainerStatus(inspectErr) ==
    /\ pc = "checkContainerStatus"
    /\ oplog' = Logged("inspect", containerID)
    /\ \/ /\ inspectErr.isNil
          /\ info' = [valid |-> TRUE, oom |-> containers[containerID].oom]
          /\ LET err == checkContainerStatus(containers[containerID].oom, exitCode)
             IN IF ~err.isNil
                THEN retOut' = "" /\ retErr' = err /\ pc' = "removeContainer"
                ELSE pc' = "getContainerOutput" /\ UNCHANGED retVars
       \/ /\ ~inspectErr.isNil
          /\ retOut' = ""
          /\ retErr' = Errorf("failed to inspect container: " \o inspectErr.msg)
          /\ pc' = "removeContainer"
          /\ UNCHANGED info
    /\ UNCHANGED <<httpVars, calls, self, parked, codeFile, callVars, containers, tmpdirs, checkID, containerID,
                   chanVars, ctxVars, scErr, exitCode, streams>>

\* mutant: what the container wrote to stderr is not looked at
getContainerOutput_IgnoreStderr(stdout, stderr) ==
    [out |-> TrimSpace(stdout), err |-> NilErr]

\* getContainerOutput, lines 133-137: the result for the demultiplexed streams
getContainerOutput(stdout, stderr) ==
    IF Len(stderr) > 0
    THEN [out |-> "", err |-> Errorf("execution error: " \o stderr)]
    ELSE [out |-> TrimSpace(stdout), err |-> NilErr]

\* mutant: Execute hands on whatever output came with an error
GetContainerOutput_KeepsOutput(logsErr, copyErr) ==
    /\ pc = "getContainerOutput"
    /\ oplog' = Logged("logs", containerID)
    /\ streams' = [valid |-> TRUE, stdout |-> containers[containerID].stdout,
                   stderr |-> containers[containerID].stderr]
    /\ retOut' = TrimSpace(containers[containerID].stdout)
    /\ retErr' = getContainerOutput(containers[containerID].stdout,
                                    containers[containerID].stderr).err
    /\ pc' = "removeContainer"
    /\ UNCHANGED <<httpVars, calls, self, parked, codeFile, callVars, containers, tmpdirs,
                   checkID, containerID, chanVars, ctxVars, scErr, exitCode, info>>

\* getContainerOutput with ContainerLogs and StdCopy, and Execute's lines 53-58
GetContainerOutput(logsErr, copyErr) ==
    /\ pc = "getContainerOutput"
    /\ oplog' = Logged("logs", containerID)
    /\ \/ LET stdout == containers[containerID].stdout
              stderr == containers[containerID].stderr
              r == getContainerOutput(stdout, stderr)
          IN /\ logsErr.isNil /\ copyErr.isNil
             /\ streams' = [valid |-> TRUE, stdout |-> stdout, stderr |-> stderr]
             /\ retOut' = (IF ~r.err.isNil THEN "" ELSE r.out)
             /\ retErr' = r.err
       \/ /\ ~logsErr.isNil
          /\ retOut' = ""
          /\ retErr' = Errorf("failed to retrieve container logs: " \o logsErr.msg)
          /\ UNCHANGED streams
       \/ /\ logsErr.isNil /\ ~copyErr.isNil
          /\ retOut' = ""
          /\ retErr' = Errorf("failed to read container logs: " \o copyErr.msg)
          /\ UNCHANGED streams
    /\ pc' = "removeContainer"
    /\ UNCHANGED <<httpVars, calls, self, parked, codeFile, callVars, containers, tmpdirs, checkID, containerID,
                   chanVars, ctxVars, scErr, exitCode, info>>

\* mutant: the executor removes the container created last, whoever made it
RemoveContainer_Latest ==
    /\ pc = "removeContainer"
    /\ containers' = removeContainer(containers, NewId - 1)
    /\ oplog' = Logged("remove", NewId - 1)
    /\ pc' = "done"
    /\ UNCHANGED <<httpVars, calls, self, parked, codeFile, callVars, tmpdirs, checkID,
                   containerID, chanVars, ctxVars, scErr, exitCode, info, streams,
                   retVars>>

\* Execute's deferred removeContainer, then its return
RemoveContainer ==
    /\ pc = "removeContainer"
    /\ containers' = removeContainer(containers, containerID)
    /\ oplog' = Logged("remove", containerID)
    /\ pc' = "done"
    /\ UNCHANGED <<httpVars, calls, self, parked, codeFile, callVars, tmpdirs, checkID, containerID, chanVars, ctxVars,
                   scErr, exitCode, info, streams, retVars>>

\* the caller has the result; the executor is free for the next call
Return ==
    /\ pc = "done"
    /\ pc' = "idle"
    /\ self' = 0
    /\ code' = "" /\ language' = "" /\ timeout' = 0
    /\ checkID' = 0 /\ codeFile' = 0 /\ containerID' = 0
    /\ ctxDone' = FALSE /\ atDeadline' = "pending"
    /\ scErr' = NilErr /\ exitCode' = 0 /\ info' = NoInfo
    /\ streams' = NoStreams
    /\ retOut' = "" /\ retErr' = NilErr
    /\ oplog' = <<>>
    /\ UNCHANGED <<httpVars, calls, parked, containers, tmpdirs, chanVars, ctxArmed>>

\* ------------------------------------------------------------ environment
\* the call that created container id is still running and holds its id
Held(id) == pc \notin {"idle", "done", "fatal"} /\ id \in {checkID, containerID}

\* a running container stops: its process ends or the kernel kills it
ContainerExits(id, status, oom, out, err) ==
    /\ containers[id].state = "running"
    /\ containers' = [containers EXCEPT
                        ![id].state = "exited", ![id].exitCode = status,
                        ![id].oom = oom, ![id].stdout = out, ![id].stderr = err]
    /\ UNCHANGED <<httpVars, calls, self, parked, codeFile, pc, callVars, tmpdirs, checkID, containerID, chanVars,
                   ctxVars, scErr, exitCode, info, streams, retVars, oplog>>

\* ContainerWait's goroutine has the daemon's answer and offers it on statusCh
WaitResponse ==
    /\ waiting # 0
    /\ containers[waiting].state = "exited"
    /\ statusCh = <<>> /\ errCh = <<>>
    /\ ~ctxDone
    /\ statusCh' = <<containers[waiting].exitCode>>
    /\ UNCHANGED <<httpVars, calls, self, parked, codeFile, pc, callVars, containers, tmpdirs, checkID, containerID,
                   waiting, errCh, ctxVars, scErr, exitCode, info, streams, retVars, oplog>>

\* ContainerWait's request fails: the connection, or the context once it is done
WaitError ==
    /\ waiting # 0
    /\ statusCh = <<>> /\ errCh = <<>>
    /\ errCh' = <<Errorf(IF ctxDone THEN "context deadline exceeded"
                                    ELSE "connection reset")>>
    /\ UNCHANGED <<httpVars, calls, self, parked, codeFile, pc, callVars, containers, tmpdirs, checkID, containerID,
                   waiting, statusCh, ctxVars, scErr, exitCode, info, streams, retVars, oplog>>

\* the timeout passes: ctx.Done() is closed
DeadlineElapses ==
    /\ ctxArmed /\ ~ctxDone
    /\ ctxDone' = TRUE
    /\ atDeadline' = containers[containerID].state
    /\ UNCHANGED <<httpVars, calls, self, parked, codeFile, pc, callVars, containers, tmpdirs, checkID, containerID,
                   chanVars, ctxArmed, scErr, exitCode, info, streams, retVars, oplog>>

\* ------------------------------------------------------------ goroutines
\* the locals of the running call
Context ==
    [self |-> self, pc |-> pc, code |-> code, language |-> language,
     timeout |-> timeout, checkID |-> checkID, codeFile |-> codeFile,
     containerID |-> containerID, waiting |-> waiting, statusCh |-> statusCh,
     errCh |-> errCh, ctxArmed |-> ctxArmed, ctxDone |-> ctxDone,
     atDeadline |-> atDeadline, scErr |-> scErr, exitCode |-> exitCode,
     info |-> info, streams |-> streams, retOut |-> retOut, retErr |-> retErr,
     oplog |-> oplog]

\* the scheduler takes the running call's goroutine off the processor
Yield ==
    /\ pc \notin {"idle", "done", "fatal"}
    /\ parked' = parked \cup {Context}
    /\ self' = 0 /\ pc' = "idle"
    /\ code' = "" /\ language' = "" /\ timeout' = 0
    /\ checkID' = 0 /\ codeFile' = 0 /\ containerID' = 0
    /\ waiting' = 0 /\ statusCh' = <<>> /\ errCh' = <<>>
    /\ ctxArmed' = FALSE /\ ctxDone' = FALSE /\ atDeadline' = "pending"
    /\ scErr' = NilErr /\ exitCode' = 0 /\ info' = NoInfo /\ streams' = NoStreams
    /\ retOut' = "" /\ retErr' = NilErr
    /\ oplog' = <<>>
    /\ UNCHANGED <<httpVars, calls, containers, tmpdirs>>

\* the scheduler puts a call's goroutine back on the processor
Resume(ctx) ==
    /\ pc = "idle"
    /\ ctx \in parked
    /\ parked' = parked \ {ctx}
    /\ self' = ctx.self /\ pc' = ctx.pc
    /\ code' = ctx.code /\ language' = ctx.language /\ timeout' = ctx.timeout
    /\ checkID' = ctx.checkID /\ codeFile' = ctx.codeFile
    /\ containerID' = ctx.containerID
    /\ waiting' = ctx.waiting /\ statusCh' = ctx.statusCh /\ errCh' = ctx.errCh
    /\ ctxArmed' = ctx.ctxArmed /\ ctxDone' = ctx.ctxDone
    /\ atDeadline' = ctx.atDeadline
    /\ scErr' = ctx.scErr /\ exitCode' = ctx.exitCode
    /\ info' = ctx.info /\ streams' = ctx.streams
    /\ retOut' = ctx.retOut /\ retErr' = ctx.retErr
    /\ oplog' = ctx.oplog
    /\ UNCHANGED <<httpVars, calls, containers, tmpdirs>>

\* the code body of each concurrent call, and what each body prints
ConcurrentCodes == <<"print(1)", "print(2)", "print(3)">>

ConcurrentTimeout == 200

ProgramOutput(c) ==
    CASE c = "print(1)" -> "1\n"
      [] c = "print(2)" -> "2\n"
      [] c = "print(3)" -> "3\n"
      [] OTHER -> ""

\* the source file a container has mounted, as it is on the host now
MountedCode(id) ==
    LET binds == containers[id].binds
    IN IF binds # <<>> /\ binds[1].host \in 1..Len(tmpdirs)
          /\ tmpdirs[binds[1].host].file
       THEN tmpdirs[binds[1].host].code
       ELSE ""

\* what a container's process writes to stdout: the check only parses, the
\* run executes the mounted file
ContainerStdout(id) ==
    IF containers[id].phase = "run" THEN ProgramOutput(MountedCode(id)) ELSE ""

Next ==
    \/ \E c \in Codes, l \in Languages, t \in Timeouts :
            calls < MaxCalls /\ ExecuteCall(c, l, t)
    \/ SyntaxCheckDefault
    \/ \E err \in CreateErrors : SyntaxCheckCreate(err)
    \/ \E err \in StartErrors : SyntaxCheckStart(err)
    \/ SyntaxCheckSelect
    \/ SyntaxCheckReturn
    \/ \E err \in CreateErrors : CreateContainer(err)
    \/ CreateCodeFileFatal
    \/ \E err \in StartErrors : StartContainer(err)
    \/ WaitForContainer
    \/ WaitSelect
    \/ \E err \in InspectErrors : CheckContainerStatus(err)
    \/ \E logsErr \in LogsErrors, copyErr \in CopyErrors :
            GetContainerOutput(logsErr, copyErr)
    \/ RemoveContainer
    \/ Return
    \/ \E id \in Ids, status \in ExitCodes, oom \in BOOLEAN,
          out \in Stdouts, err \in Stderrs :
            \* the outcome of a container nobody holds the id of is never read
            /\ Held(id) \/ (status = 0 /\ ~oom /\ out = "" /\ err = "")
            /\ ContainerExits(id, status, oom, out, err)
    \/ WaitResponse
    \/ WaitError
    \/ DeadlineElapses

Spec == Init /\ [][Next]_vars

\* concurrent calls with distinct code bodies, every container running its
\* program to a clean exit
NextConcurrent ==
    \/ \E l \in Languages :
            /\ calls < ConcurrentCalls
            /\ ExecuteCall(ConcurrentCodes[calls + 1], l, ConcurrentTimeout)
    \/ SyntaxCheckDefault
    \/ SyntaxCheckCreate(NilErr)
    \/ SyntaxCheckStart(NilErr)
    \/ SyntaxCheckSelect
    \/ SyntaxCheckReturn
    \/ CreateContainer(NilErr)
    \/ StartContainer(NilErr)
    \/ WaitForContainer
    \/ WaitSelect
    \/ CheckContainerStatus(NilErr)
    \/ GetContainerOutput(NilErr, NilErr)
    \/ RemoveContainer
    \/ Return
    \/ \E id \in Ids : ContainerExits(id, 0, FALSE, ContainerStdout(id), "")
    \/ WaitResponse
    \/ DeadlineElapses
    \/ Yield
    \/ \E ctx \in parked : Resume(ctx)

SpecConcurrent == Init /\ [][NextConcurrent]_vars

\* ------------------------------------------------- the check containers
\* code bodies for validation: well-formed, malformed, and one that holds the
\* delimiter the python check wraps the code in
ValidateCodes == {"print(1)", "x=(", "'''+str(print(1))+'''"}

MalformedCodes == {"x=("}

\* the text the python check passes to python -c before the code
PythonCheckProlog == "import ast; ast.parse('''"

\* where the string literal opened by the prolog ends: the first ''' after it
LiteralClose(body) ==
    CHOOSE i \in 1..Len(body) :
        /\ SubSeq(body, i, i + 2) = "'''"
        /\ \A j \in 1..(i - 1) : SubSeq(body, j, j + 2) # "'''"

\* the python -c program of a check container, split as the interpreter reads
\* it: the literal handed to ast.parse, and the program text after the literal
PythonCheckParts(id) ==
    LET prog == containers[id].cmd[3]
        body == SubSeq(prog, Len(PythonCheckProlog) + 1, Len(prog))
        close == LiteralClose(body)
    IN [literal |-> SubSeq(body, 1, close - 1),
        rest |-> SubSeq(body, close + 3, Len(body))]

IsPythonCheck(id) ==
    containers[id].phase = "check" /\ containers[id].cmd[1] = "python"

\* the check container runs text of the submitted code as statements: the
\* program goes on after the literal with more than the closing bracket
RunsSubmittedCode(id) == IsPythonCheck(id) /\ PythonCheckParts(id).rest # ")"

\* the text the check container parses
ParsedCode(id) ==
    IF IsPythonCheck(id) THEN PythonCheckParts(id).literal ELSE MountedCode(id)

\* how a check container ends: status 1 with the parser's complaint for
\* malformed text, status 0 otherwise
CheckStatus(id) == IF ParsedCode(id) \in MalformedCodes THEN 1 ELSE 0

CheckStderr(id) == IF CheckStatus(id) # 0 THEN "SyntaxError" ELSE ""

\* validations of the same code on two goroutines, the daemon never failing
\* and every check container ending as its text makes it end
NextValidate ==
    \/ \E c \in ValidateCodes, l \in Languages :
            /\ calls < ConcurrentCalls
            /\ ExecuteCall(c, l, ConcurrentTimeout)
    \/ SyntaxCheckDefault
    \/ SyntaxCheckCreate(NilErr)
    \/ SyntaxCheckStart(NilErr)
    \/ SyntaxCheckSelect
    \/ SyntaxCheckReturn
    \/ Return
    \/ \E id \in Ids :
            /\ containers[id].phase = "check"
            /\ ContainerExits(id, CheckStatus(id), FALSE, "", CheckStderr(id))
    \/ WaitResponse
    \/ Yield
    \/ \E ctx \in parked : Resume(ctx)

SpecValidate == Init /\ [][NextValidate]_vars

\* ------------------------------------------------------------ the HTTP API
Methods == {"POST", "GET"}

\* values of the X-Api-Key header ("": no header)
ApiKeys == {"", "secret", "wrong"}

\* values of API_KEY_CHECK_ENABLED and of API_KEY ("": unset)
CheckEnabledValues == {"", "true", "false"}
ConfiguredKeys == {"", "secret"}

Envs == [checkEnabled : CheckEnabledValues, apiKey : ConfiguredKeys]

CodeValues == {JString(""), JString("print(1)"), JString("x=("), JNumber("5")}
LanguageValues ==
    {JString(""), JString("python"), JString("javascript"), JString("ruby")}

\* JSON objects with any of the keys "code" and "language"
Objects ==
    {f \in UNION {[D -> CodeValues \cup LanguageValues] :
                     D \in SUBSET {"code", "language"}} :
        /\ "code" \in DOMAIN f => f["code"] \in CodeValues
        /\ "language" \in DOMAIN f => f["language"] \in LanguageValues}

\* bodies: a text that is no JSON, and objects alone or followed by a stray "}"
Bodies ==
    {NoBody} \cup {[object |-> TRUE, fields |-> f, rest |-> r] :
                      f \in Objects, r \in {"", "}"}}

Requests == [method : Methods, apiKey : ApiKeys, body : Bodies]

\* the whole body is one JSON value
IsValidJSON(b) == b.object /\ b.rest = ""

\* json.NewDecoder(r.Body).Decode(&body), body a map[string]string: reads the
\* first JSON value of the text and nothing after it; a value that is not a
\* string is an error
Decode(b) ==
    IF ~b.object
    THEN [err |-> Errorf("invalid character 'i' looking for beginning of value"),
          m |-> <<>>]
    ELSE IF \E k \in DOMAIN b.fields : b.fields[k].type # "string"
    THEN [err |-> Errorf("json: cannot unmarshal number into Go value of type string"),
          m |-> <<>>]
    ELSE [err |-> NilErr, m |-> [k \in DOMAIN b.fields |-> b.fields[k].s]]

\* body[key] of a Go map: the zero value when the key is missing
Lookup(m, key) == IF key \in DOMAIN m THEN m[key] ELSE ""

StatusOK == 200
StatusBadRequest == 400
StatusUnauthorized == 401
StatusMethodNotAllowed == 405
StatusInternalServerError == 500

\* Execute's timeout in the handler, 5 * time.Second, in milliseconds
HandlerTimeout == 5000

\* errorResponse: the status and the JSON object {"error": message}
errorResponse(message, statusCode) ==
    [status |-> statusCode, body |-> [k \in {"error"} |-> message]]

\* ServeHTTP, lines 54-69: the JSON object answered for Execute's result, as
\* the function from its keys to their values
ExecuteResponse(output, err) ==
    IF ~err.isNil
    THEN [k \in {"error"} |-> err.msg]
    ELSE [k \in {"output"} |-> output]

\* mutant: the handler admits a language the engine has no entry for
isLanguageSupported_Ruby(l) == l \in {"python", "javascript", "ruby"}

isLanguageSupported(l) == l \in {"python", "javascript"}

\* what ServeHTTP does with a request, lines 24-54: the error it answers, or
\* the arguments it calls Execute with
Answer(r) == [execute |-> FALSE, resp |-> r, code |-> "", language |-> ""]

\* mutant: the method is not looked at
serveHTTP_AnyMethod(r) ==
    LET d == Decode(r.body)
        c == Lookup(d.m, "code")
        l == Lookup(d.m, "language")
    IN IF ~d.err.isNil
       THEN Answer(errorResponse("invalid request body", StatusBadRequest))
       ELSE IF l = ""
       THEN Answer(errorResponse("language not specified", StatusBadRequest))
       ELSE IF ~isLanguageSupported(l)
       THEN Answer(errorResponse("unsupported language: " \o l, StatusBadRequest))
       ELSE IF c = ""
       THEN Answer(errorResponse("code not provided", StatusBadRequest))
       ELSE [execute |-> TRUE, resp |-> NoResponse, code |-> c, language |-> l]

\* mutant: the code is looked at before the language
serveHTTP_CodeFirst(r) ==
    LET d == Decode(r.body)
        c == Lookup(d.m, "code")
        l == Lookup(d.m, "language")
    IN IF r.method # "POST"
       THEN Answer(errorResponse("method not allowed", StatusMethodNotAllowed))
       ELSE IF ~d.err.isNil
       THEN Answer(errorResponse("invalid request body", StatusBadRequest))
       ELSE IF c = ""
       THEN Answer(errorResponse("code not provided", StatusBadRequest))
       ELSE IF l = ""
       THEN Answer(errorResponse("language not specified", StatusBadRequest))
       ELSE IF ~isLanguageSupported(l)
       THEN Answer(errorResponse("unsupported language: " \o l, StatusBadRequest))
       ELSE [execute |-> TRUE, resp |-> NoResponse, code |-> c, language |-> l]

\* mutant: a language the handler does not know is passed on to the executor
serveHTTP_AnyLanguage(r) ==
    LET d == Decode(r.body)
        c == Lookup(d.m, "code")
        l == Lookup(d.m, "language")
    IN IF r.method # "POST"
       THEN Answer(errorResponse("method not allowed", StatusMethodNotAllowed))
       ELSE IF ~d.err.isNil
       THEN Answer(errorResponse("invalid request body", StatusBadRequest))
       ELSE IF l = ""
       THEN Answer(errorResponse("language not specified", StatusBadRequest))
       ELSE IF c = ""
       THEN Answer(errorResponse("code not provided", StatusBadRequest))
       ELSE [execute |-> TRUE, resp |-> NoResponse, code |-> c, language |-> l]

\* mutant: an empty code is passed on to the executor
serveHTTP_NoCodeCheck(r) ==
    LET d == Decode(r.body)
        c == Lookup(d.m, "code")
        l == Lookup(d.m, "language")
    IN IF r.method # "POST"
       THEN Answer(errorResponse("method not allowed", StatusMethodNotAllowed))
       ELSE IF ~d.err.isNil
       THEN Answer(errorResponse("invalid request body", StatusBadRequest))
       ELSE IF l = ""
       THEN Answer(errorResponse("language not specified", StatusBadRequest))
       ELSE IF ~isLanguageSupported(l)
       THEN Answer(errorResponse("unsupported language: " \o l, StatusBadRequest))
       ELSE [execute |-> TRUE, resp |-> NoResponse, code |-> c, language |-> l]

serveHTTP(r) ==
    LET d == Decode(r.body)
        c == Lookup(d.m, "code")
        l == Lookup(d.m, "language")
    IN IF r.method # "POST"
       THEN Answer(errorResponse("method not allowed", StatusMethodNotAllowed))
       ELSE IF ~d.err.isNil
       THEN Answer(errorResponse("invalid request body", StatusBadRequest))
       ELSE IF l = ""
       THEN Answer(errorResponse("language not specified", StatusBadRequest))
       ELSE IF ~isLanguageSupported(l)
       THEN Answer(errorResponse("unsupported language: " \o l, StatusBadRequest))
       ELSE IF c = ""
       THEN Answer(errorResponse("code not provided", StatusBadRequest))
       ELSE [execute |-> TRUE, resp |-> NoResponse, code |-> c, language |-> l]

\* the executor's variables
execVars ==
    <<calls, self, pc, code, language, timeout, containers, tmpdirs, checkID,
      codeFile, parked, containerID, waiting, statusCh, errCh, ctxArmed,
      ctxDone, atDeadline, scErr, exitCode, info, streams, retOut, retErr,
      oplog>>

\* mutant: the middleware lets a request with a wrong key through
authorize_Open(r, e) ==
    IF e.checkEnabled = "true" /\ e.apiKey = ""
    THEN [next |-> FALSE,
          resp |-> errorResponse("API key not set", StatusInternalServerError)]
    ELSE [next |-> TRUE, resp |-> NoResponse]

\* mutant: any value of API_KEY_CHECK_ENABLED but the empty one enables the check
authorize_AnyValue(r, e) ==
    IF e.checkEnabled # ""
    THEN IF e.apiKey = ""
         THEN [next |-> FALSE,
               resp |-> errorResponse("API key not set", StatusInternalServerError)]
         ELSE IF r.apiKey # e.apiKey
         THEN [next |-> FALSE,
               resp |-> errorResponse("unauthorized", StatusUnauthorized)]
         ELSE [next |-> TRUE, resp |-> NoResponse]
    ELSE [next |-> TRUE, resp |-> NoResponse]

\* mutant: the middleware looks at the method before it looks at the key
authorize_MethodFirst(r, e) ==
    IF e.checkEnabled = "true"
    THEN IF r.method # "POST"
         THEN [next |-> FALSE,
               resp |-> errorResponse("method not allowed", StatusMethodNotAllowed)]
         ELSE IF e.apiKey = ""
         THEN [next |-> FALSE,
               resp |-> errorResponse("API key not set", StatusInternalServerError)]
         ELSE IF r.apiKey # e.apiKey
         THEN [next |-> FALSE,
               resp |-> errorResponse("unauthorized", StatusUnauthorized)]
         ELSE [next |-> TRUE, resp |-> NoResponse]
    ELSE [next |-> TRUE, resp |-> NoResponse]

\* mutant: the key is compared without asking whether one is configured
authorize_EmptyKeyMatches(r, e) ==
    IF e.checkEnabled = "true"
    THEN IF r.apiKey # e.apiKey
         THEN [next |-> FALSE,
               resp |-> errorResponse("unauthorized", StatusUnauthorized)]
         ELSE [next |-> TRUE, resp |-> NoResponse]
    ELSE [next |-> TRUE, resp |-> NoResponse]

\* AuthMiddleware, lines 11-23: the error it answers, or next.ServeHTTP
authorize(r, e) ==
    IF e.checkEnabled = "true"
    THEN IF e.apiKey = ""
         THEN [next |-> FALSE,
               resp |-> errorResponse("API key not set", StatusInternalServerError)]
         ELSE IF r.apiKey # e.apiKey
         THEN [next |-> FALSE,
               resp |-> errorResponse("unauthorized", StatusUnauthorized)]
         ELSE [next |-> TRUE, resp |-> NoResponse]
    ELSE [next |-> TRUE, resp |-> NoResponse]

\* a request arrives at /api/execute, the environment being e: AuthMiddleware
\* answers it or hands it to the handler
AuthMiddleware(r, e) ==
    /\ hpc \in {"idle", "responded"} /\ pc = "idle"
    /\ requests' = requests + 1
    /\ req' = r /\ env' = e
    /\ resp' = authorize(r, e).resp
    /\ hpc' = (IF authorize(r, e).next THEN "handler" ELSE "responded")
    /\ UNCHANGED execVars

\* CodeExecutionHandler.ServeHTTP up to its call of Execute
ServeHTTP ==
    /\ hpc = "handler"
    /\ resp' = serveHTTP(req).resp
    /\ hpc' = (IF serveHTTP(req).execute THEN "execute" ELSE "responded")
    /\ UNCHANGED <<requests, req, env, execVars>>

\* ServeHTTP, line 54: h.executor.Execute(code, language, 5*time.Second)
HandlerExecute ==
    /\ hpc = "execute"
    /\ ExecuteCall(serveHTTP(req).code, serveHTTP(req).language, HandlerTimeout)

\* mutant: an error of the executor is answered as a server error
Respond_ServerError ==
    /\ hpc = "execute" /\ pc = "done"
    /\ resp' = [status |-> (IF retErr.isNil THEN StatusOK
                            ELSE StatusInternalServerError),
                body |-> ExecuteResponse(retOut, retErr)]
    /\ hpc' = "responded"
    /\ UNCHANGED <<requests, req, env, execVars>>

\* ServeHTTP, lines 55-69: Execute has returned; its result is encoded without
\* a WriteHeader, so the status is 200
Respond ==
    /\ hpc = "execute" /\ pc = "done"
    /\ resp' = [status |-> StatusOK, body |-> ExecuteResponse(retOut, retErr)]
    /\ hpc' = "responded"
    /\ UNCHANGED <<requests, req, env, execVars>>

\* the server, one request at a time; the daemon never fails, a check
\* container ends as its text makes it end, a run container with its output
\* or with a traceback
NextHTTP ==
    \/ \E r \in Requests, e \in Envs :
            requests < MaxRequests /\ AuthMiddleware(r, e)
    \/ ServeHTTP
    \/ HandlerExecute
    \/ SyntaxCheckCreate(NilErr)
    \/ SyntaxCheckStart(NilErr)
    \/ SyntaxCheckSelect
    \/ SyntaxCheckReturn
    \/ CreateContainer(NilErr)
    \/ StartContainer(NilErr)
    \/ WaitForContainer
    \/ WaitSelect
    \/ CheckContainerStatus(NilErr)
    \/ GetContainerOutput(NilErr, NilErr)
    \/ RemoveContainer
    \/ Respond
    \/ hpc = "responded" /\ Return
    \/ \E id \in Ids :
            /\ containers[id].phase = "check"
            /\ ContainerExits(id, CheckStatus(id), FALSE, "", CheckStderr(id))
    \/ \E id \in Ids :
            /\ containers[id].phase = "run" /\ Held(id)
            /\ \/ ContainerExits(id, 0, FALSE, ContainerStdout(id), "")
               \/ ContainerExits(id, 1, FALSE, "", "Traceback")
    \/ WaitResponse
    \/ DeadlineElapses

SpecHTTP == Init /\ [][NextHTTP]_vars

\* ------------------------------------------------------------------ claims
\* how the callers and tests tell the failure kinds apart: by the message
IsTimeout(err) == ~err.isNil /\ Contains(err.msg, "container execution timed out")
IsSyntaxFailure(err) == ~err.isNil /\ Contains(err.msg, "syntax check failed")
IsMemoryExceeded(err) == ~err.isNil /\ Contains(err.msg, "container exceeded memory limit")
IsNonZeroExit(err) == ~err.isNil /\ Contains(err.msg, "non-zero status code")

\* the errors the daemon gives when the sandbox itself fails
InfraMessages == {"No such image", "cannot start container", "connection reset"}

\* the containers the running call has created
OwnContainers == {i \in Ids : containers[i].state # "absent" /\ containers[i].owner = self}

\* C1: when Execute returns the timeout failure, its run-phase container is
\* not running any more.
C1_TimeoutContainerStopped ==
    (pc = "done" /\ IsTimeout(retErr)) => containers[containerID].state # "running"

\* C2: when Execute returns, on whatever path, every container the call
\* created has been removed.
C2_AllContainersDestroyed ==
    pc = "done" => \A i \in OwnContainers : containers[i].state = "removed"

\* C3: once the syntax check of a call has failed, for whatever reason, the
\* call has created no run-phase container and never creates one.
C3_SyntaxGatesExecution ==
    ~scErr.isNil =>
        /\ containerID = 0
        /\ \A i \in OwnContainers : containers[i].phase # "run"
        /\ pc \in {"sc_return", "done"}

C3_Witness ==
    /\ pc = "done"
    /\ scErr = Errorf("syntax check failed")
    /\ checkID # 0 /\ containers[checkID].state = "removed"

\* C4: a call with a language that is not registered issues no request to the
\* daemon and creates no container and no staged file; it fails at once.
C4_UnsupportedTouchesNoSandbox ==
    (pc # "idle" /\ language \notin supportedLanguages) =>
        /\ oplog = <<>>
        /\ OwnContainers = {}
        /\ checkID = 0 /\ containerID = 0
        /\ pc \in {"syntaxCheck", "done"}
        /\ pc = "done" => ~retErr.isNil /\ retOut = ""

C4_Witness ==
    pc = "done" /\ language = "ruby" /\ Contains(retErr.msg, "unsupported language: ruby")

\* C5: if the run-phase container was still running when the deadline
\* elapsed (and the connection to the daemon did not break), Execute returns
\* the timeout failure.
C5_DeadlineMeansTimeout ==
    (pc = "done" /\ atDeadline = "running" /\ ~Contains(retErr.msg, "connection reset"))
        => IsTimeout(retErr)

\* C6: if the run-phase container had exited when the deadline elapsed,
\* Execute does not report the timeout failure.
C6_ExitBeforeDeadlineNotTimeout ==
    (pc = "done" /\ atDeadline = "exited") => ~IsTimeout(retErr)

\* C7: a failure of the sandbox during the syntax check (create, start, wait)
\* is not reported to the caller as a syntax failure.
C7_InfraNotSyntaxFailure ==
    (pc = "done" /\ ~scErr.isNil /\ scErr.msg \in InfraMessages)
        => ~IsSyntaxFailure(retErr)

\* C8: the failure for a language that is not registered is not reported as
\* a syntax failure.
C8_UnsupportedNotSyntaxFailure ==
    (pc = "done" /\ language \notin supportedLanguages) => ~IsSyntaxFailure(retErr)

\* C9: when the inspection of the exited run-phase container reports the OOM
\* flag, Execute returns the memory-exceeded failure whatever the exit code,
\* and that failure is not the non-zero-exit one.
C9_OOMTakesPrecedence ==
    (info.valid /\ info.oom) =>
        /\ pc \in {"removeContainer", "done"}
        /\ retErr = Errorf("container exceeded memory limit")
        /\ retOut = ""
        /\ IsMemoryExceeded(retErr) /\ ~IsNonZeroExit(retErr)

C9_Witness ==
    pc = "done" /\ info.valid /\ info.oom /\ exitCode # 0

\* C10: when the run-phase container exited with a non-zero code and without
\* the OOM flag, the failure Execute is about to return carries the stderr the
\* container wrote.
C10_NonZeroExitCarriesStderr ==
    (pc = "removeContainer" /\ info.valid /\ ~info.oom /\ exitCode # 0) =>
        /\ ~retErr.isNil
        /\ Contains(retErr.msg, containers[containerID].stderr)

\* Execute has the demultiplexed logs of a run container that exited with
\* status 0 and was not OOM-killed
CleanExitLogsRead ==
    /\ pc \in {"removeContainer", "done"}
    /\ scErr.isNil
    /\ exitCode = 0
    /\ info.valid /\ ~info.oom
    /\ streams.valid

\* C11: a run container that exits with status 0, is not OOM-killed and wrote
\* to stderr makes Execute fail with a message containing that stderr, and
\* with no stdout
C11_StderrMeansFailure ==
    (CleanExitLogsRead /\ streams.stderr # "") =>
        /\ ~retErr.isNil
        /\ Contains(retErr.msg, streams.stderr)
        /\ retOut = ""

C11_Witness ==
    /\ pc = "done" /\ CleanExitLogsRead
    /\ streams.stderr # "" /\ streams.stdout # ""
    /\ retErr = Errorf("execution error: " \o streams.stderr)

\* t is s without its leading and trailing white space
IsTrimmed(t, s) ==
    \E i \in 1..(Len(s) + 1), j \in 0..Len(s) :
        /\ i <= j + 1
        /\ t = (IF i <= j THEN SubSeq(s, i, j) ELSE "")
        /\ \A k \in 1..(i - 1) : IsSpace(SubSeq(s, k, k))
        /\ \A k \in (j + 1)..Len(s) : IsSpace(SubSeq(s, k, k))
        /\ i <= j => (~IsSpace(SubSeq(s, i, i)) /\ ~IsSpace(SubSeq(s, j, j)))

\* C12: when the syntax check passes and the run container exits with status
\* 0, is not OOM-killed and wrote nothing to stderr, Execute returns a nil
\* error and the container's stdout without leading and trailing white space
C12_SuccessReturnsTrimmedStdout ==
    (CleanExitLogsRead /\ streams.stderr = "") =>
        /\ retErr = NilErr
        /\ IsTrimmed(retOut, streams.stdout)

C12_Witness ==
    /\ pc = "done" /\ CleanExitLogsRead
    /\ streams.stderr = ""
    /\ retErr = NilErr
    /\ retOut # "" /\ retOut # streams.stdout

\* syntaxCheck is returning a failure it made from the check container's
\* non-zero exit status, having had the container's logs if it asked for them
CheckExitedNonZero ==
    /\ pc = "sc_return"
    /\ checkID # 0
    /\ containers[checkID].state = "exited"
    /\ containers[checkID].exitCode # 0
    /\ Contains(scErr.msg, "syntax check failed")
    /\ ~Contains(scErr.msg, "unable to retrieve logs")

\* C13: in every registered language, when the syntax-check container exits
\* with a non-zero status the validation failure's diagnostic holds what that
\* container wrote to stderr
C13_SyntaxFailureCarriesStderr ==
    CheckExitedNonZero => Contains(scErr.msg, containers[checkID].stderr)

\* a step the call itself takes: Execute and the functions it calls
ExecuteStep ==
    \/ SyntaxCheckDefault
    \/ \E err \in CreateErrors : SyntaxCheckCreate(err)
    \/ \E err \in StartErrors : SyntaxCheckStart(err)
    \/ SyntaxCheckSelect
    \/ SyntaxCheckReturn
    \/ \E err \in CreateErrors : CreateContainer(err)
    \/ \E err \in StartErrors : StartContainer(err)
    \/ WaitForContainer
    \/ WaitSelect
    \/ \E err \in InspectErrors : CheckContainerStatus(err)
    \/ \E logsErr \in LogsErrors, copyErr \in CopyErrors :
            GetContainerOutput(logsErr, copyErr)
    \/ RemoveContainer

\* an Execute call has started and has not returned
InProgress == pc \notin {"idle", "done", "fatal"}

\* C14: a call in progress never hangs: without any container exiting and
\* without any answer from the daemon's wait, the call can take its next step
\* or its deadline timer can fire, so that every call returns
C14_CallNeverHangs ==
    InProgress => ENABLED (ExecuteStep \/ DeadlineElapses)

\* the positions of a call in the order Execute's text visits them
PipelineOrder ==
    <<"idle", "syntaxCheck", "sc_start", "sc_select", "sc_return",
      "createContainer", "startContainer", "waitForContainer", "select",
      "checkContainerStatus", "getContainerOutput", "removeContainer", "done",
      "fatal">>

Position(p) == CHOOSE i \in 1..Len(PipelineOrder) : PipelineOrder[i] = p

\* the state of the request's state machine a position belongs to
RequestState(p) ==
    CASE p \in {"syntaxCheck", "sc_start", "sc_select", "sc_return"} -> "Validating"
      [] p = "createContainer" -> "Staging"
      [] p \in {"startContainer", "waitForContainer", "select"} -> "Running"
      [] p \in {"checkContainerStatus", "getContainerOutput"} -> "Collecting"
      [] p \in {"removeContainer", "done", "fatal"} -> "Terminal"
      [] OTHER -> "None"

StateOrder == <<"None", "Validating", "Staging", "Running", "Collecting", "Terminal">>

StateRank(st) == CHOOSE i \in 1..Len(StateOrder) : StateOrder[i] = st

\* no request to the daemon appears twice in a log
NoRepeat(log) == \A i, j \in 1..Len(log) : log[i] = log[j] => i = j

\* C15: a call only moves forward through Validating, Staging, Running,
\* Collecting and its terminal state, never back to a position it has left;
\* it issues no request to the daemon twice; and when it returns having made
\* a run container, removing that container was the last thing it did
C15_StrictPipeline ==
    [][/\ (pc # "done" /\ pc' # pc) =>
              /\ Position(pc') > Position(pc)
              /\ StateRank(RequestState(pc')) >= StateRank(RequestState(pc))
       /\ NoRepeat(oplog')
       /\ (pc' = "done" /\ containerID' # 0) =>
              oplog'[Len(oplog')] = [op |-> "remove", id |-> containerID']]_vars

C15_Witness ==
    /\ pc = "done" /\ retErr = NilErr
    /\ checkID # 0 /\ containerID # 0 /\ streams.valid
    /\ oplog[Len(oplog)] = [op |-> "remove", id |-> containerID]
    /\ \E i \in 1..Len(oplog) : oplog[i] = [op |-> "logs", id |-> containerID]

\* the containers call n has created, of one phase
CallContainers(n, phase) ==
    {i \in Ids : /\ containers[i].state # "absent"
                 /\ containers[i].owner = n
                 /\ containers[i].phase = phase}

InstancesPerCall ==
    /\ \A n \in 1..calls :
          /\ Cardinality(CallContainers(n, "check")) <= 1
          /\ Cardinality(CallContainers(n, "run")) <= 1
          /\ CallContainers(n, "run") # {} => CallContainers(n, "check") # {}
    /\ self # 0 =>
          /\ CallContainers(self, "check") = {checkID} \ {0}
          /\ CallContainers(self, "run") = {containerID} \ {0}
          /\ containerID # 0 => (checkID # 0 /\ checkID # containerID /\ scErr.isNil)
          /\ language \notin supportedLanguages => OwnContainers = {}

C17_OwnCodeOwnOutput ==
    self # 0 =>
        /\ containerID # 0 /\ containers[containerID].state # "removed" =>
              MountedCode(containerID) = code
        /\ (checkID # 0 /\ codeFile # 0 /\ pc \in {"sc_start", "sc_select", "sc_return"}) =>
              MountedCode(checkID) = code
        /\ streams.valid => streams.stdout = ProgramOutput(code)
        /\ (pc = "done" /\ retErr.isNil) => retOut = TrimSpace(ProgramOutput(code))

C17_Witness ==
    /\ pc = "done" /\ self = 2 /\ retErr.isNil /\ retOut = "2"
    /\ \E ctx \in parked :
          /\ ctx.self = 1 /\ ctx.pc = "select"
          /\ containers[ctx.containerID].state = "exited"
          /\ containers[ctx.containerID].stdout = "1\n"

\* the calls in progress, as their locals
InFlight == parked \cup (IF self # 0 THEN {Context} ELSE {})

\* the container ids and the staged paths a call holds
HeldIds(ctx) == {ctx.checkID, ctx.containerID, ctx.waiting} \ {0}

HeldPaths(ctx) ==
    ({ctx.codeFile} \ {0})
        \cup {containers[i].binds[1].host :
                 i \in {j \in HeldIds(ctx) : containers[j].binds # <<>>}}

\* C18: concurrent calls share no container and no staged file: every request
\* a call has sent to the daemon names a container that call created, the ids
\* and the staged paths two calls hold are disjoint, and the file a call
\* removes is the one it staged
C18_NothingShared ==
    /\ \A ctx \in InFlight :
          /\ \A k \in 1..Len(ctx.oplog) :
                ctx.oplog[k].id # 0 => containers[ctx.oplog[k].id].owner = ctx.self
          /\ \A i \in HeldIds(ctx) : containers[i].owner = ctx.self
          /\ \A q \in HeldPaths(ctx) : tmpdirs[q].code = ctx.code
    /\ \A c1, c2 \in InFlight :
          c1.self # c2.self =>
              /\ HeldIds(c1) \cap HeldIds(c2) = {}
              /\ HeldPaths(c1) \cap HeldPaths(c2) = {}

C18_Witness ==
    /\ pc = "removeContainer" /\ containerID # 0 /\ streams.valid
    /\ \E ctx \in parked :
          /\ ctx.pc = "select" /\ ctx.ctxDone
          /\ containers[ctx.containerID].state = "running"
          /\ ctx.language = "javascript"

\* C19: when Execute returns an error its output is the empty string, and the
\* response the handler makes of Execute's result has the key "error" (with
\* the error's message) or the key "output" (with the output), never both
\* and never neither
C19_OutputOrError ==
    pc = "done" =>
        /\ ~retErr.isNil => retOut = ""
        /\ LET body == ExecuteResponse(retOut, retErr)
           IN /\ DOMAIN body \in {{"output"}, {"error"}}
              /\ "error" \in DOMAIN body <=> ~retErr.isNil
              /\ "error" \in DOMAIN body => body["error"] = retErr.msg
              /\ "output" \in DOMAIN body => body["output"] = retOut

C19_Witness ==
    /\ pc = "done" /\ streams.valid
    /\ streams.stdout # "" /\ streams.stderr # ""
    /\ retOut = ""
    /\ DOMAIN ExecuteResponse(retOut, retErr) = {"error"}

\* C20: every error Execute returns, and every error syntaxCheck hands to
\* Execute, has a message that is not empty
C20_FailureHasDiagnostic ==
    /\ (pc = "done" /\ ~retErr.isNil) => Len(retErr.msg) > 0
    /\ ~scErr.isNil => Len(scErr.msg) > 0

C20_Witness ==
    /\ pc = "done"
    /\ IsNonZeroExit(retErr)
    /\ Len(retErr.msg) > Len("container exited with non-zero status code: ")

\* the run-phase containers the daemon has
RunContainers == {i \in Ids : containers[i].phase = "run"
                              /\ containers[i].state \notin {"absent", "removed"}}

\* C21: every run-phase container has a memory limit of 64 MiB, a swap limit
\* equal to its memory limit and a CPU quota of half of the default period of
\* 100000 microseconds, whatever the call's arguments; and no step changes
\* the limits of a container that exists
C21_FixedLimits ==
    [][/\ \A i \in RunContainers' :
             /\ containers'[i].memory = 67108864
             /\ containers'[i].memorySwap = containers'[i].memory
             /\ 2 * containers'[i].cpuQuota = 100000
       /\ \A i \in RunContainers \cap RunContainers' :
             /\ containers'[i].memory = containers[i].memory
             /\ containers'[i].memorySwap = containers[i].memorySwap
             /\ containers'[i].cpuQuota = containers[i].cpuQuota]_vars

C21_Witness ==
    /\ pc = "removeContainer" /\ streams.valid
    /\ containerID \in RunContainers
    /\ containers[containerID].state = "exited"
    /\ containers[containerID].memorySwap = 67108864

\* the check containers that have been started
StartedChecks ==
    {i \in Ids : containers[i].phase = "check"
                 /\ containers[i].state \in {"running", "exited"}}

\* C22: a check container only parses the submitted code: in no started
\* check container does text of the code run as statements, whatever the
\* code holds
C22_CheckOnlyParses ==
    \A i \in StartedChecks : ~RunsSubmittedCode(i)

\* the call has its verdict from syntaxCheck
Validated(ctx) == ctx.pc \in {"sc_return", "createContainer", "done"}

\* the verdict was made with the check container's logs at hand
LogsRead(ctx) ==
    /\ ~Contains(ctx.scErr.msg, "unable to retrieve logs")
    /\ ~Contains(ctx.scErr.msg, "failed to read container logs")

\* C23: two validations of the same code in the same language, the sandbox
\* behaving the same for both, end with the same verdict and the same
\* diagnostic, whatever the other validation has left behind
C23_ValidationIdempotent ==
    \A c1, c2 \in InFlight :
        (/\ c1.code = c2.code /\ c1.language = c2.language
         /\ Validated(c1) /\ Validated(c2)
         /\ LogsRead(c1) /\ LogsRead(c2))
            => c1.scErr = c2.scErr

C23_Witness ==
    /\ pc = "done" /\ self = 2 /\ language = "javascript"
    /\ Contains(scErr.msg, "SyntaxError")
    /\ \E ctx \in parked :
          /\ ctx.self = 1 /\ ctx.code = code /\ ctx.language = language
          /\ ctx.pc = "sc_return" /\ ctx.scErr = scErr

\* ------------------------------------------------------------ the HTTP API
\* the request body is a JSON object and has the field
HasField(r, key) == r.body.object /\ key \in DOMAIN r.body.fields

\* every field of the body is a JSON string
StringFields(r) ==
    r.body.object /\ \A k \in DOMAIN r.body.fields : r.body.fields[k].type = "string"

\* the request names a language, and not one of the two supported
NamesUnsupportedLanguage(r) ==
    /\ HasField(r, "language")
    /\ r.body.fields["language"].type = "string"
    /\ r.body.fields["language"].s \notin {"", "python", "javascript"}

\* in this step the request is answered with the status and the error message
AnsweredWith(status, message) ==
    /\ hpc' = "responded"
    /\ resp'.status = status
    /\ resp'.body = [k \in {"error"} |-> message]

\* in this step no Execute call is made and no container appears
ExecutorNotInvoked ==
    /\ hpc' # "execute"
    /\ calls' = calls /\ pc' = "idle"
    /\ containers' = containers

\* C24 as stated: whatever its method and its other fields, a request the
\* handler is handed that names an unsupported language is answered 400
\* "unsupported language: <language>" and the executor is not invoked
C24_UnsupportedLanguage ==
    [][(hpc = "handler" /\ NamesUnsupportedLanguage(req))
          => /\ AnsweredWith(400, "unsupported language: "
                                     \o req.body.fields["language"].s)
             /\ ExecutorNotInvoked]_vars

\* C24: a POST request the handler is handed whose body is a JSON object of
\* strings naming an unsupported language is answered 400 "unsupported
\* language: <language>"; the executor is not invoked and no container is
\* created
C24_PostUnsupportedLanguage ==
    [][(/\ hpc = "handler" /\ req.method = "POST" /\ StringFields(req)
        /\ NamesUnsupportedLanguage(req))
          => /\ AnsweredWith(400, "unsupported language: "
                                     \o req.body.fields["language"].s)
             /\ ExecutorNotInvoked]_vars

C24_Witness ==
    /\ hpc = "responded" /\ req.method = "POST"
    /\ NamesUnsupportedLanguage(req) /\ HasField(req, "code")
    /\ req.body.fields["code"] = JString("print(1)")
    /\ resp.status = 400 /\ resp.body["error"] = "unsupported language: ruby"
    /\ calls = 0

\* C25: when Execute has returned an error, the response has status 200 and
\* its body has a non-empty "error" and no "output"
C25_ExecutorErrorIs200 ==
    [][(hpc = "execute" /\ pc = "done" /\ ~retErr.isNil /\ hpc' = "responded")
          => /\ resp'.status = 200
             /\ DOMAIN resp'.body = {"error"}
             /\ resp'.body["error"] # ""]_vars

C25_Witness ==
    /\ hpc = "responded" /\ pc = "done" /\ ~retErr.isNil
    /\ resp.status = 200 /\ DOMAIN resp.body = {"error"}
    /\ Contains(resp.body["error"], "syntax check failed")
    /\ req.body.fields["code"] = JString("x=(")

\* C26: a request arriving while API_KEY_CHECK_ENABLED is "true" and API_KEY
\* is non-empty, with an X-Api-Key that differs from API_KEY, is answered 401
\* "unauthorized"; it is not handed to the handler, no Execute call is made
\* and no container is created
C26_WrongKeyUnauthorized ==
    [][(/\ requests' = requests + 1
        /\ env'.checkEnabled = "true" /\ env'.apiKey # ""
        /\ req'.apiKey # env'.apiKey)
          => /\ AnsweredWith(401, "unauthorized")
             /\ hpc' # "handler"
             /\ ExecutorNotInvoked]_vars

C26_Witness ==
    /\ hpc = "responded" /\ env.checkEnabled = "true" /\ env.apiKey = "secret"
    /\ req.apiKey = "wrong" /\ req.method = "POST"
    /\ IsValidJSON(req.body) /\ HasField(req, "language")
    /\ req.body.fields["language"] = JString("python")
    /\ HasField(req, "code") /\ req.body.fields["code"] = JString("print(1)")
    /\ resp.status = 401 /\ calls = 0

\* the request without its X-Api-Key header
WithoutKey(r) == [r EXCEPT !.apiKey = ""]

\* C27: an arriving request is handed to the handler exactly when
\* API_KEY_CHECK_ENABLED is not "true", or API_KEY is non-empty and X-Api-Key
\* equals it; what the handler then answers, and what it calls Execute with,
\* is what it does for the same request without the header
C27_ReachesHandlerIff ==
    [][/\ (requests' = requests + 1)
            => ((hpc' = "handler")
                   <=> \/ env'.checkEnabled # "true"
                       \/ env'.apiKey # "" /\ req'.apiKey = env'.apiKey)
       /\ (hpc = "handler")
            => /\ resp' = serveHTTP(WithoutKey(req)).resp
               /\ (hpc' = "execute") <=> serveHTTP(WithoutKey(req)).execute
       /\ (hpc = "execute" /\ pc = "idle" /\ pc' # "idle")
            => /\ code' = serveHTTP(WithoutKey(req)).code
               /\ language' = serveHTTP(WithoutKey(req)).language
               /\ timeout' = 5000]_vars

C27_Witness ==
    /\ hpc = "responded" /\ env.checkEnabled = "false" /\ env.apiKey = "secret"
    /\ req.apiKey = "wrong"
    /\ resp.status = 200 /\ DOMAIN resp.body = {"output"}
    /\ resp.body["output"] = "1"

\* C28: a request the handler is handed with a method other than POST is
\* answered 405 "method not allowed", and the executor is not invoked
C28_MethodNotAllowed ==
    [][(hpc = "handler" /\ req.method # "POST")
          => /\ AnsweredWith(405, "method not allowed")
             /\ ExecutorNotInvoked]_vars

C28_Witness ==
    /\ hpc = "responded" /\ req.method = "GET"
    /\ IsValidJSON(req.body) /\ HasField(req, "language")
    /\ req.body.fields["language"] = JString("python")
    /\ HasField(req, "code") /\ req.body.fields["code"] = JString("print(1)")
    /\ resp.status = 405 /\ calls = 0

\* C29: a POST request the handler is handed whose body is not valid JSON is
\* answered 400 "invalid request body", and the executor is not invoked
C29_InvalidJSONRejected ==
    [][(hpc = "handler" /\ req.method = "POST" /\ ~IsValidJSON(req.body))
          => /\ AnsweredWith(400, "invalid request body")
             /\ ExecutorNotInvoked]_vars

\* C30 as stated: a POST request the handler is handed whose JSON object has
\* no "language", or an empty one, is answered 400 "language not specified"
C30_LanguageNotSpecified ==
    [][(/\ hpc = "handler" /\ req.method = "POST" /\ req.body.object
        /\ \/ ~HasField(req, "language")
           \/ req.body.fields["language"] = JString(""))
          => /\ AnsweredWith(400, "language not specified")
             /\ ExecutorNotInvoked]_vars

\* C30: a POST request the handler is handed whose body is a JSON object of
\* strings with no "language", or an empty one, is answered 400 "language
\* not specified", and the executor is not invoked
C30_DecodedLanguageNotSpecified ==
    [][(/\ hpc = "handler" /\ req.method = "POST" /\ StringFields(req)
        /\ \/ ~HasField(req, "language")
           \/ req.body.fields["language"] = JString(""))
          => /\ AnsweredWith(400, "language not specified")
             /\ ExecutorNotInvoked]_vars

C30_Witness ==
    /\ hpc = "responded" /\ req.method = "POST" /\ StringFields(req)
    /\ ~HasField(req, "language")
    /\ HasField(req, "code") /\ req.body.fields["code"] = JString("print(1)")
    /\ resp.status = 400 /\ resp.body["error"] = "language not specified"
    /\ calls = 0

\* the request names one of the two supported languages
NamesSupportedLanguage(r) ==
    /\ HasField(r, "language")
    /\ r.body.fields["language"] \in {JString("python"), JString("javascript")}

\* the request has no field of that name, or an empty string for it
MissingOrEmpty(r, key) ==
    ~HasField(r, key) \/ r.body.fields[key] = JString("")

\* C31: a POST request the handler is handed that names a supported language
\* and has no code, or an empty one, is answered 400 "code not provided",
\* and the executor is not invoked
C31_CodeNotProvided ==
    [][(/\ hpc = "handler" /\ req.method = "POST"
        /\ NamesSupportedLanguage(req) /\ MissingOrEmpty(req, "code"))
          => /\ AnsweredWith(400, "code not provided")
             /\ ExecutorNotInvoked]_vars

C31_Witness ==
    /\ hpc = "responded" /\ req.method = "POST"
    /\ HasField(req, "language")
    /\ req.body.fields["language"] = JString("javascript")
    /\ HasField(req, "code") /\ req.body.fields["code"] = JString("")
    /\ resp.status = 400 /\ resp.body["error"] = "code not provided"
    /\ calls = 0

\* the staged source files still on the host
StagedFiles == {i \in 1..Len(tmpdirs) : tmpdirs[i].file}

\* the temporary directories still on the host: no operation removes one
StagedDirs == 1..Len(tmpdirs)

\* C32: when Execute is about to return, on any path, no staged source file
\* and no temporary directory is left on the host
C32_NothingStagedRemains ==
    pc = "done" => (StagedFiles = {} /\ StagedDirs = {})

\* C33: a failure to stage the source file is an error of the call: the
\* process is not terminated by it
C33_StagingFailureIsAnError == pc # "fatal"

\* the languages a request can name
NamedLanguages == {v.s : v \in LanguageValues}

\* C34: every language the handler admits has a syntax-check branch, an image
\* and a file extension in the engine; no run container has an empty image or
\* a source file without extension, and no call made by the handler fails as
\* an unsupported language
C34_RegistryAgrees ==
    /\ \A l \in NamedLanguages \cup Languages :
          isLanguageSupported(l)
             => /\ syntaxCheckBranch(l) # "default"
                /\ getImageForLanguage(l) # ""
                /\ getFileExtensionForLanguage(l) # ""
    /\ \A i \in RunContainers :
          /\ containers[i].image # ""
          /\ containers[i].cmd[1] \notin {"code.", "code"}
          /\ containers[i].binds[1].target \notin {"/app/code.", "/app/code"}
          /\ tmpdirs[containers[i].binds[1].host].name \notin {"code.", "code"}
    /\ ~Contains(retErr.msg, "unsupported language")
    /\ (hpc = "responded" /\ resp.status = 200 /\ "error" \in DOMAIN resp.body)
          => ~Contains(resp.body["error"], "unsupported language")

C34_Witness ==
    /\ hpc = "execute" /\ pc = "removeContainer"
    /\ containerID \in RunContainers
    /\ containers[containerID].image = "javascript-exec"
    /\ containers[containerID].cmd = <<"code.js">>
    /\ tmpdirs[containers[containerID].binds[1].host].name = "code.js"

\* the check that fails first in the order method, body, language present,
\* language supported, code present, as the error it is answered with ("":
\* every check passes)
FirstFailure(r) ==
    IF r.method # "POST" THEN "method not allowed"
    ELSE IF ~StringFields(r) THEN "invalid request body"
    ELSE IF MissingOrEmpty(r, "language") THEN "language not specified"
    ELSE IF NamesUnsupportedLanguage(r)
    THEN "unsupported language: " \o r.body.fields["language"].s
    ELSE IF MissingOrEmpty(r, "code") THEN "code not provided"
    ELSE ""

\* C35: the handler answers with the first check that fails in the order
\* method, body, language present, language supported, code present, and
\* calls Execute when none fails; so a POST with neither language nor code
\* gets "language not specified", one with an unsupported language and no
\* code "unsupported language: <language>", and any other method "method not
\* allowed" whatever the body
C35_FirstFailingCheck ==
    [][(hpc = "handler" /\ hpc' # "handler")
          => /\ IF FirstFailure(req) = ""
                THEN hpc' = "execute"
                ELSE AnsweredWith(IF req.method # "POST" THEN 405 ELSE 400,
                                  FirstFailure(req))
             /\ (/\ req.method = "POST" /\ StringFields(req)
                 /\ ~HasField(req, "language") /\ ~HasField(req, "code"))
                   => AnsweredWith(400, "language not specified")
             /\ (/\ req.method = "POST" /\ StringFields(req)
                 /\ NamesUnsupportedLanguage(req) /\ ~HasField(req, "code"))
                   => AnsweredWith(400, "unsupported language: "
                                           \o req.body.fields["language"].s)
             /\ (req.method # "POST")
                   => AnsweredWith(405, "method not allowed")]_vars

C35_Witness ==
    /\ hpc = "responded" /\ req.method = "POST" /\ StringFields(req)
    /\ NamesUnsupportedLanguage(req) /\ ~HasField(req, "code")
    /\ resp.status = 400 /\ resp.body["error"] = "unsupported language: ruby"

\* the key the request sends is not the configured one, or it sends none
WrongOrMissingKey == req'.apiKey # env'.apiKey \/ req'.apiKey = ""

\* C36 as stated: a request arriving while API_KEY_CHECK_ENABLED is "true"
\* with a wrong or missing key is answered 401, whatever else it holds
C36_WrongKeyAlways401 ==
    [][(requests' = requests + 1 /\ env'.checkEnabled = "true"
        /\ WrongOrMissingKey)
          => AnsweredWith(401, "unauthorized")]_vars

\* C36: a request arriving while API_KEY_CHECK_ENABLED is "true" with a wrong
\* or missing key is answered by the middleware, whatever its method and
\* body: 401 when API_KEY is non-empty, and never 405 or 400; the handler
\* only ever has a request that passed the middleware
C36_AuthBeforeValidation ==
    [][/\ (requests' = requests + 1 /\ env'.checkEnabled = "true"
           /\ WrongOrMissingKey)
             => /\ hpc' = "responded"
                /\ resp'.status \notin {400, 405}
                /\ env'.apiKey # "" => AnsweredWith(401, "unauthorized")
                /\ ExecutorNotInvoked
       /\ (hpc' \in {"handler", "execute"} /\ env'.checkEnabled = "true")
             => (env'.apiKey # "" /\ req'.apiKey = env'.apiKey)]_vars

C36_Witness ==
    /\ hpc = "responded" /\ env.checkEnabled = "true" /\ env.apiKey = "secret"
    /\ req.apiKey = "" /\ req.method = "GET" /\ req.body = NoBody
    /\ resp.status = 401 /\ calls = 0

\* C37: a request arriving while API_KEY_CHECK_ENABLED is "true" and API_KEY
\* is empty is answered 500 "API key not set" whatever key it sends, none
\* included; it is not handed to the handler and no Execute call is made
C37_KeyNotSet ==
    [][(requests' = requests + 1 /\ env'.checkEnabled = "true"
        /\ env'.apiKey = "")
          => /\ AnsweredWith(500, "API key not set")
             /\ hpc' # "handler"
             /\ ExecutorNotInvoked]_vars

C37_Witness ==
    /\ hpc = "responded" /\ env.checkEnabled = "true" /\ env.apiKey = ""
    /\ req.apiKey = "" /\ req.method = "POST"
    /\ IsValidJSON(req.body) /\ NamesSupportedLanguage(req)
    /\ HasField(req, "code") /\ req.body.fields["code"] = JString("print(1)")
    /\ resp.status = 500 /\ calls = 0

====
